---- MODULE Spec2Model ----
(***************************************************************************)
(* Model of the MediMind backend's assignment engine, recommendation       *)
(* engine and booking engine over the shared document store.               *)
(*                                                                         *)
(* Every handler is one atomic action (FastAPI serves the request, and     *)
(* runs its background tasks, before the model takes the next step).  The  *)
(* document store performs every read and write it is asked for.           *)
(***************************************************************************)
EXTENDS Integers, Sequences, FiniteSets, TLC

VARIABLES users, relationships, conversations, reports, recs,
          prescriptions, appointments, consultations, slots, calls, last

vars == <<users, relationships, conversations, reports, recs,
          prescriptions, appointments, consultations, slots, calls, last>>

----------------------------------------------------------------------------
(* The directory: user ids and the values a field may hold.                *)

Doctors == {"dA", "dB"}
Patients == {"p1", "p2", "p3"}
UserIds == Doctors \cup Patients

\* Firestore streams a query's documents in document-id order.
DoctorOrder == <<"dA", "dB">>

\* The falsy value of assigned_doctor (field absent, None or "").
NoDoctor == ""
NoRole == "none"
NoName == "none"
Absent == "absent"

\* A doctor's availability subcollection with no document in it.
NoSlots == [s \in {} |-> "free"]

\* No request is in flight.
NoCalls == <<>>

\* The full_name a user's own profile form carries; dB's form has none.
ProfileName(u) == IF u = "dB" THEN NoName ELSE u

\* get_current_user, lines 45-53: the document of a first authentication.
NewUser ==
    [role |-> NoRole, profile_complete |-> FALSE, full_name |-> NoName,
     assigned_doctor |-> NoDoctor, assigned_doctor_name |-> NoName,
     assigned_at |-> FALSE]

----------------------------------------------------------------------------
(* Load Estimator                                                          *)

\* A Load Estimator that forgets the profile_complete filter.
EligibleDoctorsAnyProfile(us) ==
    {d \in UserIds : us[d].role = "doctor"}

\* line 13: role == doctor and profile_complete == True
EligibleDoctors(us) ==
    {d \in UserIds : us[d].role = "doctor" /\ us[d].profile_complete}

\* A count that takes every assigned patient, whichever doctor it names.
PatientCountAll(us, d) ==
    Cardinality({p \in UserIds : us[p].role = "patient"
                                  /\ us[p].assigned_doctor # NoDoctor})

\* lines 23-24: the patients whose assigned_doctor is d
PatientCount(us, d) ==
    Cardinality({p \in UserIds : us[p].role = "patient"
                                  /\ us[p].assigned_doctor = d})

\* lines 14, 21-29: the eligible doctors in stream order, each with its load
DoctorLoads(us) ==
    LET ds == SelectSeq(DoctorOrder, LAMBDA d : d \in EligibleDoctors(us))
    IN  [i \in 1..Len(ds) |->
            [id |-> ds[i],
             full_name |-> IF us[ds[i]].full_name = NoName THEN "Unknown"
                           ELSE us[ds[i]].full_name,
             count |-> PatientCount(us, ds[i])]]

\* A Load Estimator that returns the first entry without sorting.
FirstUnsorted(loads) == loads[1]

\* lines 32-33: a stable sort by count, then the first entry
FirstMinimum(loads) ==
    LET i == CHOOSE i \in 1..Len(loads) :
                 /\ \A j \in 1..Len(loads) : loads[i].count <= loads[j].count
                 /\ \A j \in 1..(i - 1) : loads[j].count > loads[i].count
    IN  loads[i]

None == [id |-> "None"]

GetLeastLoadedDoctor(us) ==
    LET loads == DoctorLoads(us)
    IN  IF Len(loads) = 0 THEN None ELSE FirstMinimum(loads)

----------------------------------------------------------------------------
(* Chat collaborator                                                       *)

ConversationId(p, d) == <<"auto", p, d>>

\* A chat initialisation that never looks for an existing conversation.
InitializeConversationUnchecked(convs, p, d) ==
    {c \in convs : c.id # ConversationId(p, d)}
    \cup {[id |-> ConversationId(p, d), participant_ids |-> {p, d},
           seeded |-> TRUE]}

\* chat_service.py lines 16-54: reuse a conversation of the two participants,
\* else create auto_<p>_<d> and seed it with the system message.
InitializeConversation(convs, p, d) ==
    IF \E c \in convs : p \in c.participant_ids /\ d \in c.participant_ids
    THEN convs
    ELSE {c \in convs : c.id # ConversationId(p, d)}
         \cup {[id |-> ConversationId(p, d), participant_ids |-> {p, d},
                seeded |-> TRUE]}

----------------------------------------------------------------------------
(* Assignment Engine                                                       *)

RelationshipId(d, p) == <<d, p>>

\* lines 54-58: user_ref.update of the three assignment fields
WriteAssignment(us, p, doctor) ==
    [us EXCEPT ![p].assigned_doctor = doctor.id,
               ![p].assigned_doctor_name = doctor.full_name,
               ![p].assigned_at = TRUE]

\* lines 61-69: document(rel_id).set overwrites the document of that id
WriteRelationship(rels, p, doctor) ==
    {r \in rels : r.id # RelationshipId(doctor.id, p)}
    \cup {[id |-> RelationshipId(doctor.id, p), doctor_id |-> doctor.id,
           patient_id |-> p, doctor_name |-> doctor.full_name,
           status |-> "active"]}

\* assign_doctor_to_patient: the store after the call, and what it returns
AssignDoctorToPatient(us, rels, convs, p) ==
    LET doctor == GetLeastLoadedDoctor(us)
    IN  IF doctor = None
        THEN [users |-> us, relationships |-> rels, conversations |-> convs,
              ret |-> "None"]
        ELSE [users |-> WriteAssignment(us, p, doctor),
              relationships |-> WriteRelationship(rels, p, doctor),
              conversations |-> InitializeConversation(convs, p, doctor.id),
              ret |-> doctor.id]

----------------------------------------------------------------------------
(* What the last handler answered, for the handlers whose answer a         *)
(* property reads: the two assignment triggers with their caller, body and *)
(* return value, the recommendation and booking handlers with their status *)
(* code.  Any other step clears it.                                        *)

Response(op, uid, arg, code, ret, engine) ==
    [op |-> op, uid |-> uid, arg |-> arg, code |-> code, ret |-> ret,
     engine |-> engine]

NoResponse == Response("none", "none", Absent, 0, "None", FALSE)

\* The answer of a handler of which only the status code is observed.
Answer(op, code) == Response(op, "any", Absent, code, "None", FALSE)

UnchangedRecommendationSide ==
    UNCHANGED <<reports, recs, prescriptions, appointments, consultations,
                slots, calls>>

----------------------------------------------------------------------------
(* Directory handlers                                                      *)

RoleInputs(u) == {IF u \in Doctors THEN "doctor" ELSE "patient", "admin"}

\* auth.py select_role
SelectRole(u, role) ==
    /\ IF role \notin {"patient", "doctor"}
       THEN /\ UNCHANGED users
            /\ last' = NoResponse
       ELSE /\ users' = [users EXCEPT ![u].role = role]
            /\ last' = NoResponse
    /\ UNCHANGED <<relationships, conversations>>
    /\ UnchangedRecommendationSide

\* doctor.py update_doctor_profile: the form's fields, and profile_complete
UpdateDoctorProfile(u) ==
    /\ users' = [users EXCEPT ![u].full_name = ProfileName(u),
                              ![u].profile_complete = TRUE]
    /\ last' = NoResponse
    /\ UNCHANGED <<relationships, conversations>>
    /\ UnchangedRecommendationSide

\* What a profile body may say about assigned_doctor.
BodyAssignedDoctor == {Absent, NoDoctor, "dB"}

\* patient.py lines 18-19: {**profile_data, "profile_complete": True}
MergeProfile(us, u, bodyDoctor) ==
    [us EXCEPT ![u].full_name = ProfileName(u),
               ![u].profile_complete = TRUE,
               ![u].assigned_doctor =
                   IF bodyDoctor = Absent THEN @ ELSE bodyDoctor]

\* patient.py update_patient_profile
UpdatePatientProfile(u, bodyDoctor) ==
    LET merged == MergeProfile(users, u, bodyDoctor)
        out == AssignDoctorToPatient(merged, relationships, conversations, u)
    IN  /\ IF merged[u].assigned_doctor = NoDoctor
           THEN /\ users' = out.users
                /\ relationships' = out.relationships
                /\ conversations' = out.conversations
                /\ last' = Response("update_patient_profile", u, bodyDoctor,
                                    200, out.ret, TRUE)
           ELSE /\ users' = merged
                /\ UNCHANGED <<relationships, conversations>>
                /\ last' = Response("update_patient_profile", u, bodyDoctor,
                                    200, merged[u].assigned_doctor, FALSE)
        /\ UnchangedRecommendationSide

\* A manual trigger without the "already assigned" early return.
ManualAssignDoctorAlways(u) ==
    LET out == AssignDoctorToPatient(users, relationships, conversations, u)
    IN  /\ IF users[u].role # "patient"
           THEN /\ UNCHANGED <<users, relationships, conversations>>
                /\ last' = Response("manual_assign_doctor", u, Absent, 403,
                                    "None", FALSE)
           ELSE /\ users' = out.users
                /\ relationships' = out.relationships
                /\ conversations' = out.conversations
                /\ last' = Response("manual_assign_doctor", u, Absent,
                                    IF out.ret = "None" THEN 503 ELSE 200,
                                    out.ret, TRUE)
        /\ UnchangedRecommendationSide

\* patient.py manual_assign_doctor
ManualAssignDoctor(u) ==
    LET out == AssignDoctorToPatient(users, relationships, conversations, u)
    IN  /\ IF users[u].role # "patient"
           THEN /\ UNCHANGED <<users, relationships, conversations>>
                /\ last' = Response("manual_assign_doctor", u, Absent, 403,
                                    "None", FALSE)
           ELSE IF users[u].assigned_doctor # NoDoctor
           THEN /\ UNCHANGED <<users, relationships, conversations>>
                /\ last' = Response("manual_assign_doctor", u, Absent, 200,
                                    users[u].assigned_doctor, FALSE)
           ELSE /\ users' = out.users
                /\ relationships' = out.relationships
                /\ conversations' = out.conversations
                /\ last' = Response("manual_assign_doctor", u, Absent,
                                    IF out.ret = "None" THEN 503 ELSE 200,
                                    out.ret, TRUE)
        /\ UnchangedRecommendationSide

----------------------------------------------------------------------------
(* The assignment subsystem: every user has authenticated once, nothing    *)
(* else has happened.                                                      *)

Init ==
    /\ users = [u \in UserIds |-> NewUser]
    /\ relationships = {}
    /\ conversations = {}
    /\ reports = <<>>
    /\ recs = <<>>
    /\ prescriptions = <<>>
    /\ appointments = <<>>
    /\ consultations = <<>>
    /\ slots = NoSlots
    /\ calls = NoCalls
    /\ last = NoResponse

Next ==
    \/ \E u \in UserIds : \E role \in RoleInputs(u) : SelectRole(u, role)
    \/ \E u \in Doctors : UpdateDoctorProfile(u)
    \/ \E u \in Patients : \E b \in BodyAssignedDoctor : UpdatePatientProfile(u, b)
    \/ \E u \in UserIds : ManualAssignDoctor(u)

Spec == Init /\ [][Next]_vars

----------------------------------------------------------------------------
(* Risk levels as the strings the code compares.                           *)

\* The verdicts GroqProvider.analyze_report returns after its normalisation.
Verdicts == {"Low", "Medium", "High"}

\* What a request body may carry as risk_level.
BodyRisks == {Absent, "High", "high", "HIGH", "Medium", "Low", "LOW", "Critical"}

\* A report not yet analysed has no risk_level and no summary.
NoRisk == ""
NoSummary == "none"
NoReport == 0
NoConsultation == 0

\* str.lower() on the strings above
Lower(s) ==
    CASE s \in {"High", "high", "HIGH"} -> "high"
      [] s \in {"Medium", "medium", "MEDIUM"} -> "medium"
      [] s \in {"Low", "low", "LOW"} -> "low"
      [] s = "Critical" -> "critical"
      [] OTHER -> s

\* str.capitalize() on a lower-cased risk
Capitalize(s) ==
    CASE s = "high" -> "High"
      [] s = "medium" -> "Medium"
      [] s = "low" -> "Low"
      [] s = "critical" -> "Critical"
      [] OTHER -> s

----------------------------------------------------------------------------
(* Recommendation Engine                                                   *)

\* An urgency rule that compares risk_level without lower-casing it.
UrgencyCaseSensitive(risk_level) ==
    IF risk_level = "high" THEN "urgent"
    ELSE IF risk_level = "low" THEN "normal" ELSE "follow_up"

\* consultations.py lines 37-39
Urgency(risk_level) ==
    IF Lower(risk_level) = "high" THEN "urgent"
    ELSE IF Lower(risk_level) = "low" THEN "normal" ELSE "follow_up"

\* An engine that applies the risk gate of the automatic path itself.
GenerateRecommendationGated(rs, user_id, doctor_id, report_id, reason_type, risk_level, summary) ==
    IF Lower(risk_level) \in {"medium", "high"}
    THEN Append(rs, [patient_id |-> user_id, doctor_id |-> doctor_id,
                     report_id |-> report_id, reason_type |-> reason_type,
                     risk_level |-> risk_level, urgency |-> Urgency(risk_level),
                     summary |-> summary, status |-> "active",
                     consultation_id |-> NoConsultation])
    ELSE rs

\* generate_recommendation: a new document under a fresh id, status active
GenerateRecommendation(rs, user_id, doctor_id, report_id, reason_type, risk_level, summary) ==
    Append(rs, [patient_id |-> user_id, doctor_id |-> doctor_id,
                report_id |-> report_id, reason_type |-> reason_type,
                risk_level |-> risk_level, urgency |-> Urgency(risk_level),
                summary |-> summary, status |-> "active",
                consultation_id |-> NoConsultation])

\* A count that keeps only the reports of the last thirty days.
ElevatedCountRecent(reps, user_id) ==
    Cardinality({i \in 1..Len(reps) :
                    /\ reps[i].user_id = user_id
                    /\ reps[i].status = "completed"
                    /\ Lower(reps[i].risk_level) \in {"medium", "high"}
                    /\ reps[i].age = "recent"})

\* lines 85-96: the patient's completed reports with a medium or high verdict
ElevatedCount(reps, user_id) ==
    Cardinality({i \in 1..Len(reps) :
                    /\ reps[i].user_id = user_id
                    /\ reps[i].status = "completed"
                    /\ Lower(reps[i].risk_level) \in {"medium", "high"}})

\* A risk gate that lets every verdict through.
RiskGateOpen(risk) == TRUE

\* line 63
RiskGate(risk) == risk \in {"medium", "high"}

\* A follow-up rule that never fires.
FollowUpNever(reps, user_id) == FALSE

\* A follow-up rule with a threshold of three.
FollowUpAfterThree(reps, user_id) == ElevatedCount(reps, user_id) >= 3

\* line 97
FollowUpPattern(reps, user_id) == ElevatedCount(reps, user_id) >= 2

\* auto_recommend_from_report: the recommendations after the call
AutoRecommendFromReport(us, reps, rs, report_id, user_id, analysis) ==
    LET risk == Lower(analysis.risk_level)
        doctor_id == us[user_id].assigned_doctor
        followUp == FollowUpPattern(reps, user_id)
        reason_type == IF followUp THEN "follow_up"
                       ELSE IF risk = "high" THEN "ai_escalation"
                       ELSE "post_report"
        summary_text == IF followUp THEN "multiple elevated reports"
                        ELSE analysis.summary
    IN  IF ~RiskGate(risk) THEN rs
        ELSE IF doctor_id = NoDoctor THEN rs
        ELSE GenerateRecommendation(rs, user_id, doctor_id, report_id,
                                    reason_type, Capitalize(risk), summary_text)

----------------------------------------------------------------------------
(* Report pipeline                                                         *)

\* reports.py get_report_upload_url (the signed URL is issued)
GetReportUploadUrl(u) ==
    /\ reports' = Append(reports, [user_id |-> u, status |-> "pending",
                                   risk_level |-> NoRisk, summary |-> NoSummary,
                                   age |-> "recent"])
    /\ last' = NoResponse
    /\ UNCHANGED <<calls, slots, users, relationships, conversations, recs, prescriptions,
                   appointments, consultations>>

\* analyze_report's result, as far as this core reads it
Analysis(verdict) == [risk_level |-> verdict, summary |-> "analysis summary"]

\* process_report_task lines 38-46: the report stored as completed
StoreCompleted(reps, r, analysis) ==
    [reps EXCEPT ![r].status = "completed",
                 ![r].risk_level = analysis.risk_level,
                 ![r].summary = analysis.summary]

\* The report ids a request may name: the existing ones and one that is not.
ReportIdInputs == 1..(Len(reports) + 1)

\* reports.py trigger_report_processing, then its background task
\* process_report_task with the classifier answering `verdict`
TriggerReportProcessing(u, r, verdict) ==
    LET stored == StoreCompleted(reports, r, Analysis(verdict))
    IN  /\ IF r > Len(reports)
           THEN /\ UNCHANGED <<reports, recs>>
                /\ last' = NoResponse
           ELSE IF reports[r].user_id # u
           THEN /\ UNCHANGED <<reports, recs>>
                /\ last' = NoResponse
           ELSE /\ reports' = stored
                /\ recs' = AutoRecommendFromReport(users, stored, recs, r, u,
                                                   Analysis(verdict))
                /\ last' = NoResponse
        /\ UNCHANGED <<calls, slots, users, relationships, conversations, prescriptions,
                       appointments, consultations>>

\* More than thirty days pass: every stored report is now older than that.
PassThirtyDays ==
    /\ reports' = [i \in 1..Len(reports) |-> [reports[i] EXCEPT !.age = "old"]]
    /\ last' = NoResponse
    /\ UNCHANGED <<calls, slots, users, relationships, conversations, recs, prescriptions,
                   appointments, consultations>>

----------------------------------------------------------------------------
(* Manual entry points                                                     *)

\* The recommendation ids a request may name: none (0), the existing ones
\* and one that does not exist.
RecIdInputs == 0..(Len(recs) + 1)

\* consultations.py manual_recommend_consultation
ManualRecommendConsultation(caller, patient_id, bodyRisk) ==
    LET risk_level == IF bodyRisk = Absent THEN "Medium" ELSE bodyRisk
    IN  /\ IF users[caller].role # "doctor"
           THEN /\ UNCHANGED recs
                /\ last' = Answer("recommend", 403)
           ELSE IF patient_id = ""
           THEN /\ UNCHANGED recs
                /\ last' = Answer("recommend", 400)
           ELSE /\ recs' = GenerateRecommendation(recs, patient_id, caller,
                               NoReport, "follow_up", risk_level,
                               "doctor recommends a consultation")
                /\ last' = Answer("recommend", 200)
        /\ UNCHANGED <<calls, slots, users, relationships, conversations, reports,
                       prescriptions, appointments, consultations>>

\* consultations.py request_second_opinion (report_id 0 and doctor_id ""
\* stand for a missing field)
RequestSecondOpinion(caller, report_id, doctor_id) ==
    LET report == reports[report_id]
        risk == IF report.risk_level = NoRisk THEN "Medium"
                ELSE report.risk_level
        summary == IF report.summary = NoSummary
                   THEN "patient seeks a second opinion" ELSE report.summary
    IN  /\ IF report_id = NoReport \/ doctor_id = ""
           THEN /\ UNCHANGED recs
                /\ last' = Answer("second_opinion", 400)
           ELSE IF report_id > Len(reports)
           THEN /\ UNCHANGED recs
                /\ last' = Answer("second_opinion", 404)
           ELSE IF report.user_id # caller
           THEN /\ UNCHANGED recs
                /\ last' = Answer("second_opinion", 403)
           ELSE /\ recs' = GenerateRecommendation(recs, caller, doctor_id,
                               report_id, "second_opinion", risk, summary)
                /\ last' = Answer("second_opinion", 200)
        /\ UNCHANGED <<calls, slots, users, relationships, conversations, reports,
                       prescriptions, appointments, consultations>>

\* doctor.py add_prescription; `complete` says whether the body carries the
\* four required PrescriptionCreate fields
AddPrescription(caller, patient_uid, complete) ==
    /\ IF users[caller].role # "doctor"
       THEN /\ UNCHANGED <<recs, prescriptions>>
            /\ last' = Answer("prescription", 403)
       ELSE IF ~complete
       THEN /\ UNCHANGED <<recs, prescriptions>>
            /\ last' = Answer("prescription", 422)
       ELSE IF users[patient_uid].assigned_doctor # caller
       THEN /\ UNCHANGED <<recs, prescriptions>>
            /\ last' = Answer("prescription", 403)
       ELSE /\ prescriptions' = Append(prescriptions,
                   [patient_uid |-> patient_uid, doctor_uid |-> caller])
            /\ recs' = GenerateRecommendation(recs, patient_uid, caller,
                           NoReport, "prescription", "Medium",
                           "new prescription")
            /\ last' = Answer("prescription", 200)
    /\ UNCHANGED <<calls, slots, users, relationships, conversations, reports,
                   appointments, consultations>>

\* consultations.py dismiss_recommendation (rec_id 0: the field is missing)
DismissRecommendation(caller, rec_id) ==
    /\ IF rec_id = 0
       THEN /\ UNCHANGED recs
            /\ last' = Answer("dismiss", 400)
       ELSE IF rec_id > Len(recs)
       THEN /\ UNCHANGED recs
            /\ last' = Answer("dismiss", 404)
       ELSE IF recs[rec_id].patient_id # caller /\ recs[rec_id].doctor_id # caller
       THEN /\ UNCHANGED recs
            /\ last' = Answer("dismiss", 403)
       ELSE /\ recs' = [recs EXCEPT ![rec_id].status = "dismissed"]
            /\ last' = Answer("dismiss", 200)
    /\ UNCHANGED <<calls, slots, users, relationships, conversations, reports,
                   prescriptions, appointments, consultations>>

----------------------------------------------------------------------------
(* Booking Engine                                                          *)

\* The doctor_id, date and time of a booking body: all present, or one of
\* them missing ("").
BookingFields ==
    {[doctor_id |-> "dA", date |-> "2026-01-05", time |-> "09:00 - 09:30"],
     [doctor_id |-> "", date |-> "2026-01-05", time |-> "09:00 - 09:30"],
     [doctor_id |-> "dA", date |-> "", time |-> "09:00 - 09:30"],
     [doctor_id |-> "dA", date |-> "2026-01-05", time |-> ""]}

\* lines 308-312: the recommendation, when named and existing, is marked
MarkBooked(rs, recommendation_id, consultation_id) ==
    IF recommendation_id # 0 /\ recommendation_id <= Len(rs)
    THEN [rs EXCEPT ![recommendation_id].status = "booked",
                    ![recommendation_id].consultation_id = consultation_id]
    ELSE rs

\* The falsy slot_id (field absent or "").
NoSlot == ""

\* The availability documents of doctor dA, the doctor the booking bodies
\* name: the lookup of lines 251-252.
SlotExists(doctor_id, slot_id) == doctor_id = "dA" /\ slot_id \in DOMAIN slots

\* lines 250-253: the slot, when named and existing, is marked booked
MarkSlot(sl, doctor_id, slot_id) ==
    IF slot_id # NoSlot /\ SlotExists(doctor_id, slot_id)
    THEN [sl EXCEPT ![slot_id] = "booked"]
    ELSE sl

\* A validation that forgets the time.
MissingBookingFieldButTime(f) == f.doctor_id = "" \/ f.date = ""

\* line 246
MissingBookingField(f) == f.doctor_id = "" \/ f.date = "" \/ f.time = ""

\* A consultation record that does not name its appointment.
NewConsultationUnlinked(consultation_id, appt_id, patient_id, doctor_id, recommendation_id) ==
    [appointment_id |-> 0, patient_id |-> patient_id,
     doctor_id |-> doctor_id, report_id |-> NoReport,
     recommendation_id |-> recommendation_id,
     room_name |-> <<"medimind", consultation_id>>, status |-> "scheduled"]

\* lines 294-305 (and appointments.py lines 86-96, 129-139): the
\* consultation record of a video booking
NewConsultation(consultation_id, appt_id, patient_id, doctor_id, recommendation_id) ==
    [appointment_id |-> appt_id, patient_id |-> patient_id,
     doctor_id |-> doctor_id, report_id |-> NoReport,
     recommendation_id |-> recommendation_id,
     room_name |-> <<"medimind", consultation_id>>, status |-> "scheduled"]

\* consultations.py book_consultation; a caller whose role is not patient
\* books for the body's patient_id
BookConsultationSlot(caller, bodyPatient, f, recommendation_id, slot_id) ==
    LET patient_id == IF users[caller].role = "patient" THEN caller
                      ELSE bodyPatient
        consultation_id == Len(consultations) + 1
        appt_id == Len(appointments) + 1
    IN  /\ IF MissingBookingField(f)
           THEN /\ UNCHANGED <<appointments, consultations, recs, slots>>
                /\ last' = Answer("book", 400)
           ELSE /\ slots' = MarkSlot(slots, f.doctor_id, slot_id)
                /\ appointments' = Append(appointments,
                       [consultation_id |-> consultation_id,
                        patient_id |-> patient_id, doctor_id |-> f.doctor_id,
                        date |-> f.date, time |-> f.time, type |-> "video",
                        status |-> "upcoming", report_id |-> NoReport,
                        room_name |-> <<"medimind", consultation_id>>])
                /\ consultations' = Append(consultations,
                       NewConsultation(consultation_id, appt_id, patient_id,
                                       f.doctor_id, recommendation_id))
                /\ recs' = MarkBooked(recs, recommendation_id, consultation_id)
                /\ last' = Answer("book", 200)
        /\ UNCHANGED <<calls, users, relationships, conversations, reports,
                       prescriptions>>

\* book_consultation with no slot_id in the body
BookConsultation(caller, bodyPatient, f, recommendation_id) ==
    BookConsultationSlot(caller, bodyPatient, f, recommendation_id, NoSlot)

----------------------------------------------------------------------------
(* The recommendation subsystem.  It starts from a directory the           *)
(* assignment subsystem reaches: both doctors eligible, p1 assigned to dA  *)
(* when dA was the only eligible doctor, p2 a patient without a doctor,    *)
(* p3 authenticated only.                                                  *)

OnboardedUsers ==
    [u \in UserIds |->
        CASE u \in Doctors ->
               [NewUser EXCEPT !.role = "doctor", !.profile_complete = TRUE,
                               !.full_name = ProfileName(u)]
          [] u = "p1" ->
               [NewUser EXCEPT !.role = "patient", !.profile_complete = TRUE,
                               !.full_name = ProfileName(u),
                               !.assigned_doctor = "dA",
                               !.assigned_doctor_name = "dA",
                               !.assigned_at = TRUE]
          [] u = "p2" -> [NewUser EXCEPT !.role = "patient"]
          [] OTHER -> NewUser]

OnboardedRelationships ==
    {[id |-> RelationshipId("dA", "p1"), doctor_id |-> "dA",
      patient_id |-> "p1", doctor_name |-> "dA", status |-> "active"]}

OnboardedConversations ==
    {[id |-> ConversationId("p1", "dA"), participant_ids |-> {"p1", "dA"},
      seeded |-> TRUE]}

InitRec ==
    /\ users = OnboardedUsers
    /\ relationships = OnboardedRelationships
    /\ conversations = OnboardedConversations
    /\ reports = <<>>
    /\ recs = <<>>
    /\ prescriptions = <<>>
    /\ appointments = <<>>
    /\ consultations = <<>>
    /\ slots = NoSlots
    /\ calls = NoCalls
    /\ last = NoResponse

\* The patients who act in the recommendation subsystem.
RecPatients == {"p1", "p2"}

\* p1 uploaded a report right after the first authentication; it was
\* processed, with verdict High, before p1 completed the profile and was
\* given a doctor, so it produced no recommendation.
EarlierReports ==
    <<[user_id |-> "p1", status |-> "completed", risk_level |-> "High",
       summary |-> "analysis summary", age |-> "recent"]>>

InitPipeline ==
    /\ users = OnboardedUsers
    /\ relationships = OnboardedRelationships
    /\ conversations = OnboardedConversations
    /\ reports = EarlierReports
    /\ recs = <<>>
    /\ prescriptions = <<>>
    /\ appointments = <<>>
    /\ consultations = <<>>
    /\ slots = NoSlots
    /\ calls = NoCalls
    /\ last = NoResponse

MaxReports == 4
MaxRecs == 1

\* The report pipeline and the automatic path: p2 uploads, both patients
\* ask for processing, p2 asks for a doctor while having none, time passes.
NextRec ==
    \/ /\ users["p2"].assigned_doctor = NoDoctor
       /\ ManualAssignDoctor("p2")
    \/ /\ Len(reports) < MaxReports
       /\ GetReportUploadUrl("p2")
    \/ /\ Len(recs) < MaxRecs
       /\ \E u \in RecPatients : \E r \in ReportIdInputs :
             \E verdict \in Verdicts : TriggerReportProcessing(u, r, verdict)
    \/ PassThirtyDays

SpecRec == InitPipeline /\ [][NextRec]_vars

----------------------------------------------------------------------------
(* The manual entry points and the life of a recommendation, next to the   *)
(* automatic path.  p1 is dA's patient, p2 has no doctor.                  *)

\* The risk_level a manual recommendation body may carry.
ManualRisks == {Absent, "HIGH", "low", "Critical"}

MaxManualReports == 2
MaxManualRecs == 2

\* Every path that creates a recommendation; the reports are p1's.
NextManual ==
    \/ /\ Len(reports) < MaxManualReports
       /\ GetReportUploadUrl("p1")
    \/ /\ Len(recs) < MaxManualRecs
       /\ \E u \in RecPatients : \E r \in ReportIdInputs :
             \E verdict \in Verdicts : TriggerReportProcessing(u, r, verdict)
    \/ /\ Len(recs) < MaxManualRecs
       /\ \E caller \in {"dA", "p1"} : \E patient_id \in {"", "p1", "p2"} :
             \E bodyRisk \in ManualRisks :
                ManualRecommendConsultation(caller, patient_id, bodyRisk)
    \/ /\ Len(recs) < MaxManualRecs
       /\ \E caller \in RecPatients : \E report_id \in {NoReport} \cup ReportIdInputs :
             \E doctor_id \in {"", "dB"} :
                RequestSecondOpinion(caller, report_id, doctor_id)
    \/ /\ Len(recs) < MaxManualRecs
       /\ \E caller \in {"dA", "dB", "p1"} : \E complete \in BOOLEAN :
             AddPrescription(caller, "p1", complete)

SpecManual == InitRec /\ [][NextManual]_vars

MaxAppointments == 2

\* The life of a recommendation: created by a doctor, then dismissed and
\* booked in any order.
NextLife ==
    \/ /\ Len(recs) < MaxRecs
       /\ \E patient_id \in RecPatients :
             ManualRecommendConsultation("dA", patient_id, Absent)
    \/ \E caller \in {"dA", "p1", "p2"} : \E rec_id \in RecIdInputs :
          DismissRecommendation(caller, rec_id)
    \/ /\ Len(appointments) < MaxAppointments
       /\ \E caller \in RecPatients : \E f \in BookingFields :
             \E recommendation_id \in RecIdInputs :
                BookConsultation(caller, Absent, f, recommendation_id)

SpecLife == InitRec /\ [][NextLife]_vars

----------------------------------------------------------------------------
(* Properties of the assignment subsystem (checked under Spec).            *)

\* The claims' own reading of the directory, at the moment the engine is
\* called for patient u (u itself has no doctor then).
EligibleAtCall == {d \in UserIds : users[d].role = "doctor"
                                    /\ users[d].profile_complete = TRUE}
CountAtCall(d, u) ==
    Cardinality({p \in UserIds \ {u} : users[p].role = "patient"
                                        /\ users[p].assigned_doctor = d})
EngineRanFor(u) == last'.engine /\ last'.uid = u
RelationshipsOf(rels, u) == {r \in rels : r.patient_id = u}

\* C1: whenever the engine runs for a patient with no doctor while an
\* eligible doctor exists, the patient ends assigned to an eligible
\* (role doctor, profile complete) doctor whose patient count at call time
\* is minimal among the eligible doctors, and that doctor is returned.
C1_AssignsLeastLoaded ==
    [][\A u \in UserIds :
         (EngineRanFor(u) /\ EligibleAtCall # {}) =>
            LET d == users'[u].assigned_doctor
            IN  /\ d \in EligibleAtCall
                /\ \A e \in EligibleAtCall : CountAtCall(d, u) <= CountAtCall(e, u)
                /\ last'.ret = d]_vars

\* dA has two patients, dB had none: the third patient was just given dB.
C1_Witness ==
    /\ last.op = "manual_assign_doctor" /\ last.engine /\ last.ret = "dB"
    /\ \A d \in Doctors : users[d].role = "doctor" /\ users[d].profile_complete
    /\ Cardinality({p \in Patients : users[p].role = "patient"
                                      /\ users[p].assigned_doctor = "dA"}) = 2
    /\ Cardinality({p \in Patients : users[p].role = "patient"
                                      /\ users[p].assigned_doctor = "dB"}) = 1

\* C2: a trigger for a patient who is already assigned (manual_assign_doctor,
\* or update_patient_profile once the body is merged) does not run the
\* engine: assigned_doctor stays what it was (what the body made it, when the
\* body names one), the existing assignment is what is returned, and
\* the patient's Relationship documents are the same as before.
C2_Idempotent ==
    [][\A u \in UserIds :
         /\ (/\ last'.op = "manual_assign_doctor" /\ last'.uid = u
             /\ users[u].role = "patient"
             /\ users[u].assigned_doctor # NoDoctor)
            => /\ users' = users
               /\ relationships' = relationships
               /\ conversations' = conversations
               /\ last'.ret = users[u].assigned_doctor
               /\ last'.code = 200
               /\ ~last'.engine
         /\ (/\ last'.op = "update_patient_profile" /\ last'.uid = u
             /\ \/ last'.arg = Absent /\ users[u].assigned_doctor # NoDoctor
                \/ last'.arg \in Doctors)
            => /\ users'[u].assigned_doctor =
                      (IF last'.arg = Absent THEN users[u].assigned_doctor
                       ELSE last'.arg)
               /\ users'[u].assigned_doctor_name = users[u].assigned_doctor_name
               /\ users'[u].assigned_at = users[u].assigned_at
               /\ RelationshipsOf(relationships', u) = RelationshipsOf(relationships, u)
               /\ conversations' = conversations
               /\ ~last'.engine]_vars

\* A second trigger answered "already assigned", with two eligible doctors
\* of which the other one now has fewer patients.
C2_Witness ==
    /\ last.op = "manual_assign_doctor" /\ last.code = 200 /\ ~last.engine
    /\ last.ret = "dA"
    /\ RelationshipsOf(relationships, last.uid) # {}
    /\ "dB" \in EligibleAtCall
    /\ CountAtCall("dB", last.uid) < CountAtCall("dA", last.uid)

\* C3: when the engine runs and no eligible doctor exists it returns None
\* (503 from the manual endpoint) and writes nothing: the patient's three
\* assignment fields, every other user, the Relationships and the
\* conversations are as they were at the call.
C3_UnavailableWritesNothing ==
    [][\A u \in UserIds :
         (EngineRanFor(u) /\ EligibleAtCall = {}) =>
            /\ last'.ret = "None"
            /\ (last'.op = "manual_assign_doctor"
                  => (last'.code = 503 /\ users' = users))
            /\ users'[u].assigned_doctor = NoDoctor
            /\ users'[u].assigned_doctor_name = users[u].assigned_doctor_name
            /\ users'[u].assigned_at = users[u].assigned_at
            /\ \A v \in UserIds \ {u} : users'[v] = users[v]
            /\ relationships' = relationships
            /\ conversations' = conversations]_vars

\* The manual endpoint answered 503 to a patient while a doctor had chosen
\* the role but not completed the profile.
C3_Witness ==
    /\ last.op = "manual_assign_doctor" /\ last.code = 503 /\ last.engine
    /\ \E d \in Doctors : users[d].role = "doctor" /\ ~users[d].profile_complete
    /\ users[last.uid].assigned_doctor = NoDoctor

----------------------------------------------------------------------------
(* Properties of the automatic path (checked under SpecRec).               *)

\* The risk strings an analysis may carry, and those of them that read
\* medium or high when case is ignored.
AnalysisRisks == {"HIGH", "high", "medium", "low", "Unknown", NoRisk}
ElevatedSpellings == {"HIGH", "high", "medium"}

\* The step is the processing of report r of patient u, answered `verdict`
\* by the classifier, and it reaches the evaluation (the stored verdict and
\* the untouched directory are read first: they single the step out).
Evaluates(u, r, verdict) ==
    /\ r <= Len(reports)
    /\ reports[r].user_id = u
    /\ users' = users
    /\ Len(reports') = Len(reports)
    /\ reports'[r].risk_level = verdict
    /\ reports'[r].age = reports[r].age
    /\ TriggerReportProcessing(u, r, verdict)

\* The recommendation a step has just created.
Created == recs'[Len(recs')]
CreatesOne == Len(recs') = Len(recs) + 1 /\ SubSeq(recs', 1, Len(recs)) = recs

\* The patient's completed Medium/High reports other than r, at the call.
PriorElevated(u, r) ==
    Cardinality({i \in (1..Len(reports)) \ {r} :
                    /\ reports[i].user_id = u
                    /\ reports[i].status = "completed"
                    /\ reports[i].risk_level \in {"Medium", "High"}})

\* C4: an evaluation creates a Recommendation only if the verdict is Medium
\* or High (whatever its letter case) and the patient has a non-empty
\* assigned_doctor; any other verdict, or a patient with no doctor, leaves
\* the recommendations as they were; a created Recommendation is for the
\* patient, with doctor_id the patient's assigned_doctor at evaluation time.
C4_GateAndAssignedDoctor ==
    /\ [](\A u \in RecPatients : \A risk \in AnalysisRisks :
               LET out == AutoRecommendFromReport(users, reports, recs,
                              Len(reports), u,
                              [risk_level |-> risk, summary |-> "s"])
               IN  IF risk \in ElevatedSpellings
                      /\ users[u].assigned_doctor # NoDoctor
                   THEN /\ Len(out) = Len(recs) + 1
                        /\ out[Len(out)].doctor_id = users[u].assigned_doctor
                        /\ out[Len(out)].patient_id = u
                   ELSE out = recs)
    /\ [][\A u \in RecPatients : \A r \in ReportIdInputs :
            \A verdict \in Verdicts :
               Evaluates(u, r, verdict) =>
                  IF verdict \in {"Medium", "High"}
                     /\ users[u].assigned_doctor # NoDoctor
                  THEN /\ CreatesOne
                       /\ Created.doctor_id = users[u].assigned_doctor
                       /\ Created.patient_id = u
                       /\ Created.report_id = r
                  ELSE recs' = recs]_vars

\* The patient's High report produced nothing while the patient had no
\* doctor; once the patient had one, a Low report produced nothing and a
\* Medium report produced the recommendation, for that doctor.
C4_Witness ==
    /\ \E i, j, k \in 1..Len(reports) :
          /\ reports[i].user_id = "p2" /\ reports[i].status = "completed"
          /\ reports[i].risk_level = "High"
          /\ reports[j].user_id = "p2" /\ reports[j].status = "completed"
          /\ reports[j].risk_level = "Low"
          /\ reports[k].user_id = "p2" /\ reports[k].status = "completed"
          /\ reports[k].risk_level = "Medium"
          /\ Len(recs) = 1
          /\ recs[1].report_id = k
    /\ recs[1].patient_id = "p2"
    /\ recs[1].doctor_id = users["p2"].assigned_doctor
    /\ recs[1].doctor_id \in Doctors

RecentElevated(reps, u) ==
    Cardinality({i \in 1..Len(reps) :
                    /\ reps[i].user_id = u
                    /\ reps[i].status = "completed"
                    /\ reps[i].risk_level \in {"Medium", "High"}
                    /\ reps[i].age = "recent"})

\* C7: only reports created within the thirty days before the evaluation
\* count toward the follow-up threshold: an evaluation chooses follow_up
\* only when at least two of the patient's completed elevated reports are
\* that recent.
C7_OnlyRecentReportsCount ==
    [][\A u \in RecPatients : \A r \in ReportIdInputs :
          \A verdict \in Verdicts :
             (/\ Evaluates(u, r, verdict)
              /\ CreatesOne
              /\ Created.reason_type = "follow_up") =>
                RecentElevated(reports', u) >= 2]_vars

----------------------------------------------------------------------------
(* Properties of the creation paths (checked under SpecManual).            *)

\* The spellings of High and of Low among the risk levels a path may pass.
HighSpellings == {"High", "HIGH", "high"}
LowSpellings == {"Low", "LOW", "low"}
DerivedUrgency(risk_level) ==
    IF risk_level \in HighSpellings THEN "urgent"
    ELSE IF risk_level \in LowSpellings THEN "normal" ELSE "follow_up"

\* C8: every Recommendation, whichever path created it, has the urgency its
\* risk level gives when case is ignored: High urgent, Low normal, anything
\* else (Medium included) follow_up; and the rule gives this for every risk
\* string a request body may carry.
C8_UrgencyDerivation ==
    /\ \A i \in 1..Len(recs) :
          recs[i].urgency = DerivedUrgency(recs[i].risk_level)
    /\ \A risk \in BodyRisks \ {Absent} : Urgency(risk) = DerivedUrgency(risk)

\* A doctor's manual recommendation with risk_level "HIGH" is urgent.
C8_Witness ==
    /\ Len(recs) = 1
    /\ recs[1].reason_type = "follow_up" /\ recs[1].report_id = NoReport
    /\ recs[1].risk_level = "HIGH" /\ recs[1].urgency = "urgent"

\* C9: a manual entry point whose required fields and authorization checks
\* pass creates exactly one Recommendation with status active, for any risk
\* level and whether or not the patient has an assigned doctor; a request
\* with a required field missing, or refused, is answered 4xx and creates
\* none.
C9_ManualPathsBypassGate ==
    [][/\ (last'.op = "recommend") =>
            \A caller \in {"dA", "p1"} : \A patient_id \in {"", "p1", "p2"} :
               \A bodyRisk \in ManualRisks :
                  ManualRecommendConsultation(caller, patient_id, bodyRisk) =>
                     IF users[caller].role = "doctor" /\ patient_id # ""
                     THEN /\ CreatesOne
                          /\ Created.status = "active"
                          /\ Created.patient_id = patient_id
                          /\ Created.doctor_id = caller
                          /\ last'.code = 200
                     ELSE /\ recs' = recs
                          /\ last'.code \in {400, 403}
                          /\ (patient_id = "" /\ users[caller].role = "doctor")
                                => last'.code = 400
       /\ (last'.op = "second_opinion") =>
            \A caller \in RecPatients :
               \A report_id \in {NoReport} \cup ReportIdInputs :
                  \A doctor_id \in {"", "dB"} :
                     RequestSecondOpinion(caller, report_id, doctor_id) =>
                        IF /\ report_id # NoReport /\ doctor_id # ""
                           /\ report_id <= Len(reports)
                           /\ reports[report_id].user_id = caller
                        THEN /\ CreatesOne
                             /\ Created.status = "active"
                             /\ Created.patient_id = caller
                             /\ Created.doctor_id = doctor_id
                             /\ Created.reason_type = "second_opinion"
                             /\ last'.code = 200
                        ELSE /\ recs' = recs
                             /\ last'.code \in {400, 403, 404}
                             /\ (report_id = NoReport \/ doctor_id = "")
                                   => last'.code = 400
       /\ (last'.op = "prescription") =>
            \A caller \in {"dA", "dB", "p1"} : \A complete \in BOOLEAN :
               AddPrescription(caller, "p1", complete) =>
                  IF /\ users[caller].role = "doctor" /\ complete
                     /\ users["p1"].assigned_doctor = caller
                  THEN /\ CreatesOne
                       /\ Created.status = "active"
                       /\ Created.patient_id = "p1"
                       /\ Created.reason_type = "prescription"
                       /\ last'.code = 200
                  ELSE /\ recs' = recs
                       /\ prescriptions' = prescriptions
                       /\ last'.code \in {403, 422}]_vars

\* A doctor recommended a consultation with risk_level "low" to a patient
\* who has no assigned doctor, and the request was answered 200.
C9_Witness ==
    /\ last.op = "recommend" /\ last.code = 200
    /\ Len(recs) = 1
    /\ recs[1].status = "active"
    /\ recs[1].risk_level = "low"
    /\ recs[1].patient_id = "p2"
    /\ users["p2"].assigned_doctor = NoDoctor

----------------------------------------------------------------------------
(* Properties of the life of a recommendation (checked under SpecLife).    *)

\* C10: once a Recommendation's status is dismissed or booked, no dismiss
\* and no book operation changes it again.
C10_TerminalStatus ==
    [][\A i \in 1..Len(recs) :
          recs[i].status \in {"dismissed", "booked"} =>
             recs'[i].status = recs[i].status]_vars

----------------------------------------------------------------------------
(* Properties of booking against a recommendation (checked under SpecLife). *)

\* C11: a successful book creates its own Appointment and Consultation in
\* every case, and moves the named Recommendation to booked, linked to the
\* new consultation, only if that Recommendation is active at the call; a
\* booked, dismissed or non-existent Recommendation is left as it was.
C11_BookTransitionsOnlyActive ==
    [][(last'.op = "book") =>
          \A caller \in RecPatients : \A f \in BookingFields :
             \A recommendation_id \in RecIdInputs :
                (/\ last'.code = 200
                 /\ BookConsultation(caller, Absent, f, recommendation_id)) =>
                   /\ Len(appointments') = Len(appointments) + 1
                   /\ Len(consultations') = Len(consultations) + 1
                   /\ IF /\ recommendation_id \in 1..Len(recs)
                         /\ recs[recommendation_id].status = "active"
                      THEN recs' = [recs EXCEPT
                              ![recommendation_id].status = "booked",
                              ![recommendation_id].consultation_id =
                                  Len(consultations) + 1]
                      ELSE recs' = recs]_vars

----------------------------------------------------------------------------
(* Appointments and consultations                                          *)

\* What is left of an appointment document once it is deleted.
NoAppointment == [exists |-> FALSE]
NoRoom == <<>>

AppointmentExists(appts, appointment_id) ==
    /\ appointment_id \in 1..Len(appts)
    /\ appts[appointment_id] # NoAppointment

\* The ids a request may name: the existing ones and one that is not.
AppointmentIdInputs == 1..(Len(appointments) + 1)
ConsultationIdInputs == 1..(Len(consultations) + 1)

\* appointments.py create_appointment; the body's type defaults to video
CreateAppointment(caller, bodyPatient, bodyDoctor, bodyType) ==
    LET asDoctor == users[caller].role = "doctor"
        type == IF bodyType = Absent THEN "video" ELSE bodyType
        patient_id == IF asDoctor THEN bodyPatient ELSE caller
        doctor_id == IF asDoctor THEN caller ELSE bodyDoctor
        appt_id == Len(appointments) + 1
        consultation_id == Len(consultations) + 1
        appt == [consultation_id |-> IF type = "video" THEN consultation_id
                                     ELSE NoConsultation,
                 patient_id |-> patient_id, doctor_id |-> doctor_id,
                 date |-> "2026-01-05", time |-> "09:00 - 09:30",
                 type |-> type, status |-> "upcoming", report_id |-> NoReport,
                 room_name |-> IF type = "video"
                               THEN <<"medimind", consultation_id>> ELSE NoRoom]
    IN  /\ IF asDoctor /\ bodyPatient = ""
           THEN /\ UNCHANGED <<appointments, consultations>>
                /\ last' = Answer("create_appointment", 400)
           ELSE IF asDoctor /\ users[bodyPatient].assigned_doctor # caller
           THEN /\ UNCHANGED <<appointments, consultations>>
                /\ last' = Answer("create_appointment", 403)
           ELSE /\ consultations' =
                      (IF type = "video"
                       THEN Append(consultations,
                               NewConsultation(consultation_id, appt_id,
                                               patient_id, doctor_id, 0))
                       ELSE consultations)
                /\ appointments' = Append(appointments, appt)
                /\ last' = Answer("create_appointment", 200)
        /\ UNCHANGED <<calls, slots, users, relationships, conversations, reports,
                       recs, prescriptions>>

\* The bodies of update_appointment: a status, or a type, or neither.
AppointmentUpdates ==
    {[status |-> st, type |-> Absent] :
        st \in {Absent, "upcoming", "completed", "cancelled"}}
    \cup {[status |-> Absent, type |-> "in_person"]}

\* lines 169-173: the allowed fields of the body are written
SafeUpdate(appt, update) ==
    [appt EXCEPT !.status = IF update.status = Absent THEN @ ELSE update.status,
                 !.type = IF update.type = Absent THEN @ ELSE update.type]

\* appointments.py update_appointment
UpdateAppointment(caller, appointment_id, update) ==
    /\ IF ~AppointmentExists(appointments, appointment_id)
       THEN /\ UNCHANGED appointments
            /\ last' = Answer("update_appointment", 404)
       ELSE IF /\ appointments[appointment_id].patient_id # caller
               /\ appointments[appointment_id].doctor_id # caller
       THEN /\ UNCHANGED appointments
            /\ last' = Answer("update_appointment", 403)
       ELSE /\ appointments' =
                  [appointments EXCEPT ![appointment_id] = SafeUpdate(@, update)]
            /\ last' = Answer("update_appointment", 200)
    /\ UNCHANGED <<calls, slots, users, relationships, conversations, reports, recs,
                   prescriptions, consultations>>

\* appointments.py delete_appointment
DeleteAppointment(caller, appointment_id) ==
    /\ IF ~AppointmentExists(appointments, appointment_id)
       THEN /\ UNCHANGED appointments
            /\ last' = Answer("delete_appointment", 404)
       ELSE IF /\ appointments[appointment_id].patient_id # caller
               /\ appointments[appointment_id].doctor_id # caller
       THEN /\ UNCHANGED appointments
            /\ last' = Answer("delete_appointment", 403)
       ELSE /\ appointments' =
                  [appointments EXCEPT ![appointment_id] = NoAppointment]
            /\ last' = Answer("delete_appointment", 200)
    /\ UNCHANGED <<calls, slots, users, relationships, conversations, reports, recs,
                   prescriptions, consultations>>

\* The status bodies of update_consultation: none, the three valid ones and
\* one that is not.
ConsultationStatusInputs ==
    {Absent, "in_progress", "completed", "cancelled", "scheduled"}

\* A mirror that forgets cancellations.
MirrorsCompletedOnly(new_status) == new_status = "completed"

\* line 393: the statuses that are mirrored onto the appointment
MirrorsToAppointment(new_status) == new_status \in {"completed", "cancelled"}

\* consultations.py update_consultation.  The appointment is updated after
\* the consultation; Firestore's update of a document that does not exist
\* raises, which answers 500 with the consultation already written.
UpdateConsultation(caller, consultation_id, bodyStatus) ==
    LET appt_id == consultations[consultation_id].appointment_id
        written == [consultations EXCEPT ![consultation_id].status = bodyStatus]
    IN  /\ IF consultation_id > Len(consultations)
           THEN /\ UNCHANGED <<appointments, consultations>>
                /\ last' = Answer("update_consultation", 404)
           ELSE IF /\ consultations[consultation_id].patient_id # caller
                   /\ consultations[consultation_id].doctor_id # caller
           THEN /\ UNCHANGED <<appointments, consultations>>
                /\ last' = Answer("update_consultation", 403)
           ELSE IF bodyStatus \notin {"in_progress", "completed", "cancelled"}
           THEN /\ UNCHANGED <<appointments, consultations>>
                /\ last' = Answer("update_consultation", 400)
           ELSE IF ~(appt_id # 0 /\ MirrorsToAppointment(bodyStatus))
           THEN /\ consultations' = written
                /\ UNCHANGED appointments
                /\ last' = Answer("update_consultation", 200)
           ELSE IF ~AppointmentExists(appointments, appt_id)
           THEN /\ consultations' = written
                /\ UNCHANGED appointments
                /\ last' = Answer("update_consultation", 500)
           ELSE /\ consultations' = written
                /\ appointments' =
                      [appointments EXCEPT ![appt_id].status = bodyStatus]
                /\ last' = Answer("update_consultation", 200)
        /\ UNCHANGED <<calls, slots, users, relationships, conversations, reports,
                       recs, prescriptions>>

----------------------------------------------------------------------------
(* The booking subsystem: dA has two free availability slots (availability  *)
(* documents are written to the store by the doctor's client; no handler   *)
(* of this backend creates them).                                          *)

Availability == [s \in {"s1", "s2"} |-> "free"]

InitBook ==
    /\ users = OnboardedUsers
    /\ relationships = OnboardedRelationships
    /\ conversations = OnboardedConversations
    /\ reports = <<>>
    /\ recs = <<>>
    /\ prescriptions = <<>>
    /\ appointments = <<>>
    /\ consultations = <<>>
    /\ slots = Availability
    /\ calls = NoCalls
    /\ last = NoResponse

MaxBookings == 1

\* The slot ids a booking body may carry: none, dA's slots, one that is not.
SlotInputs == {NoSlot, "s1", "s2", "s3"}

NextBook ==
    \/ /\ Len(recs) < MaxRecs
       /\ \E patient_id \in RecPatients :
             ManualRecommendConsultation("dA", patient_id, Absent)
    \/ /\ Len(appointments) < MaxBookings
       /\ \E caller \in {"p1", "p2", "dA"} : \E f \in BookingFields :
             \E slot_id \in SlotInputs : \E recommendation_id \in RecIdInputs :
                BookConsultationSlot(caller, "p1", f, recommendation_id, slot_id)
    \/ \E rec_id \in RecIdInputs : DismissRecommendation("p1", rec_id)

SpecBook == InitBook /\ [][NextBook]_vars

----------------------------------------------------------------------------
(* The appointment subsystem: appointments are booked or created, updated  *)
(* and deleted, and their consultations are updated.                       *)

NextAppt ==
    \/ /\ Len(appointments) < MaxBookings
       /\ \E caller \in {"p1", "dA"} : \E f \in BookingFields :
             BookConsultation(caller, "p1", f, 0)
    \/ /\ Len(appointments) < MaxBookings
       /\ \E caller \in {"p1", "dA"} : \E bodyPatient \in {"", "p1", "p2"} :
             \E bodyType \in {Absent, "in_person"} :
                CreateAppointment(caller, bodyPatient, "dA", bodyType)
    \/ \E caller \in {"p1", "p2"} : \E appointment_id \in AppointmentIdInputs :
          \E update \in AppointmentUpdates :
             UpdateAppointment(caller, appointment_id, update)
    \/ \E caller \in {"p1", "p2"} : \E appointment_id \in AppointmentIdInputs :
          DeleteAppointment(caller, appointment_id)
    \/ \E caller \in {"dA", "p2"} : \E consultation_id \in ConsultationIdInputs :
          \E bodyStatus \in ConsultationStatusInputs :
             UpdateConsultation(caller, consultation_id, bodyStatus)

SpecAppt == InitRec /\ [][NextAppt]_vars

----------------------------------------------------------------------------
(* Properties of booking (checked under SpecBook)                          *)

\* C12: a booking whose doctor id, date or time is missing or empty is
\* answered 400 and writes nothing: a step answered 400 leaves the
\* appointments, the consultations, the availability slots and the
\* recommendations as before, and no step answered otherwise comes from a
\* body with one of the three missing.
C12_RejectedBookingWritesNothing ==
    [][(last'.op = "book") =>
          IF last'.code = 400
          THEN UNCHANGED <<appointments, consultations, slots, recs>>
          ELSE \A caller \in {"p1", "p2", "dA"} : \A f \in BookingFields :
                  \A slot_id \in SlotInputs :
                     \A recommendation_id \in RecIdInputs :
                        (f.doctor_id = "" \/ f.date = "" \/ f.time = "") =>
                           ~BookConsultationSlot(caller, "p1", f,
                                                 recommendation_id, slot_id)]_vars

\* A booking was rejected while a recommendation was active and the slot
\* was free.
C12_Witness ==
    /\ last = Answer("book", 400)
    /\ slots["s1"] = "free"
    /\ \E i \in 1..Len(recs) : recs[i].status = "active"

----------------------------------------------------------------------------
(* Properties of appointments and consultations (checked under SpecAppt)   *)

\* C13: each successful video booking, by book_consultation or by
\* create_appointment with type video, creates exactly one appointment and
\* exactly one consultation that name each other; the records that existed
\* are untouched, and a booking of another type creates no consultation.
C13_VideoBookingCreatesLinkedPair ==
    [][(last'.op \in {"book", "create_appointment"} /\ last'.code = 200) =>
          /\ Len(appointments') = Len(appointments) + 1
          /\ SubSeq(appointments', 1, Len(appointments)) = appointments
          /\ IF appointments'[Len(appointments')].type = "video"
             THEN /\ Len(consultations') = Len(consultations) + 1
                  /\ SubSeq(consultations', 1, Len(consultations)) = consultations
                  /\ appointments'[Len(appointments')].consultation_id
                        = Len(consultations')
                  /\ consultations'[Len(consultations')].appointment_id
                        = Len(appointments')
             ELSE consultations' = consultations]_vars

\* create_appointment has just made a video appointment and its consultation.
C13_Witness ==
    /\ last = Answer("create_appointment", 200)
    /\ appointments # <<>>
    /\ appointments[Len(appointments)].type = "video"
    /\ consultations # <<>>
    /\ consultations[Len(consultations)].appointment_id = Len(appointments)

\* C14: consultations and video appointments stay paired one to one: every
\* consultation names an existing video appointment that names it back, and
\* every video appointment names a consultation that names it back.
C14_PairedOneToOne ==
    /\ \A c \in 1..Len(consultations) :
          LET a == consultations[c].appointment_id
          IN  /\ AppointmentExists(appointments, a)
              /\ appointments[a].type = "video"
              /\ appointments[a].consultation_id = c
    /\ \A a \in 1..Len(appointments) :
          (AppointmentExists(appointments, a) /\ appointments[a].type = "video")
             => /\ appointments[a].consultation_id \in 1..Len(consultations)
                /\ consultations[appointments[a].consultation_id].appointment_id = a

\* C15: when update_consultation sets a consultation to completed or
\* cancelled and answers 200, the consultation and its appointment both
\* carry that status; when it sets in_progress the appointments are as before.
C15_ConsultationStatusMirrored ==
    [][(last'.op = "update_consultation" /\ last'.code = 200) =>
          \A caller \in {"dA", "p2"} :
             \A consultation_id \in ConsultationIdInputs :
                \A bodyStatus \in ConsultationStatusInputs :
                   UpdateConsultation(caller, consultation_id, bodyStatus) =>
                      LET a == consultations[consultation_id].appointment_id
                      IN  /\ consultations'[consultation_id].status = bodyStatus
                          /\ IF bodyStatus \in {"completed", "cancelled"}
                             THEN /\ AppointmentExists(appointments', a)
                                  /\ appointments'[a].status = bodyStatus
                             ELSE appointments' = appointments]_vars

\* A consultation was cancelled with answer 200 while its appointment
\* exists.
C15_Witness ==
    /\ last = Answer("update_consultation", 200)
    /\ \E c \in 1..Len(consultations) :
          /\ consultations[c].status = "cancelled"
          /\ AppointmentExists(appointments, consultations[c].appointment_id)

\* C16: no consultation is completed or cancelled while its existing
\* appointment carries another status.
C16_NoContradictoryStatus ==
    \A c \in 1..Len(consultations) :
       (/\ consultations[c].status \in {"completed", "cancelled"}
        /\ AppointmentExists(appointments, consultations[c].appointment_id))
          => appointments[consultations[c].appointment_id].status
                = consultations[c].status

\* C17: when update_appointment sets the status of an appointment that has
\* a consultation to completed or cancelled, the consultation takes the
\* same status.
C17_AppointmentStatusMirrored ==
    [][(last'.op = "update_appointment" /\ last'.code = 200) =>
          \A caller \in {"p1", "p2"} :
             \A appointment_id \in AppointmentIdInputs :
                \A update \in AppointmentUpdates :
                   (/\ UpdateAppointment(caller, appointment_id, update)
                    /\ update.status \in {"completed", "cancelled"}
                    /\ appointments[appointment_id].consultation_id
                          # NoConsultation) =>
                      consultations'[appointments[appointment_id].consultation_id].status
                         = update.status]_vars

----------------------------------------------------------------------------
(* Authorization of recommendation changes (checked under SpecLife)        *)

\* C18: a dismissal or a booking changes a recommendation only when the
\* caller is the patient or the doctor named on it; for any other caller
\* the recommendation is left as it was.
C18_OnlyPartiesChangeRecommendation ==
    [][(last'.op \in {"book", "dismiss"}) =>
          \A caller \in {"dA", "p1", "p2"} : \A rec_id \in RecIdInputs :
             (\/ DismissRecommendation(caller, rec_id)
              \/ /\ caller \in RecPatients
                 /\ \E f \in BookingFields :
                       BookConsultation(caller, Absent, f, rec_id)) =>
                \A i \in 1..Len(recs) :
                   (recs[i].patient_id # caller /\ recs[i].doctor_id # caller)
                      => recs'[i] = recs[i]]_vars

----------------------------------------------------------------------------
(* Conversations: the engine's initialisation may raise, and users start   *)
(* conversations themselves.                                               *)

\* How a call of initialize_conversation ends: it returns; it raises before
\* writing anything (the query or the set of the conversation fails); it
\* raises after the conversation is set, at the set of the system message.
ChatOutcomes == {"ok", "raises", "raises_after_set"}

\* chat_service.py lines 16-54 with the point where the call ends
InitializeConversationEnding(convs, p, d, outcome) ==
    CASE outcome = "raises" -> convs
      [] outcome = "ok" -> InitializeConversation(convs, p, d)
      [] OTHER -> {IF c \in convs THEN c ELSE [c EXCEPT !.seeded = FALSE] :
                      c \in InitializeConversation(convs, p, d)}

\* An engine whose outer handler catches the chat failure and returns None.
AssignDoctorToPatientChatFails(us, rels, convs, p, outcome) ==
    LET doctor == GetLeastLoadedDoctor(us)
    IN  IF doctor = None
        THEN [users |-> us, relationships |-> rels, conversations |-> convs,
              ret |-> "None"]
        ELSE [users |-> WriteAssignment(us, p, doctor),
              relationships |-> WriteRelationship(rels, p, doctor),
              conversations |->
                  InitializeConversationEnding(convs, p, doctor.id, outcome),
              ret |-> IF outcome = "ok" THEN doctor.id ELSE "None"]

\* assignment_service.py lines 40-89: the chat step is wrapped in its own
\* try/except (lines 72-84), after which the doctor id is returned
AssignDoctorToPatientChat(us, rels, convs, p, outcome) ==
    LET doctor == GetLeastLoadedDoctor(us)
    IN  IF doctor = None
        THEN [users |-> us, relationships |-> rels, conversations |-> convs,
              ret |-> "None"]
        ELSE [users |-> WriteAssignment(us, p, doctor),
              relationships |-> WriteRelationship(rels, p, doctor),
              conversations |->
                  InitializeConversationEnding(convs, p, doctor.id, outcome),
              ret |-> doctor.id]

\* patient.py manual_assign_doctor, with the ending of the chat step
ManualAssignDoctorChat(u, outcome) ==
    LET out == AssignDoctorToPatientChat(users, relationships, conversations,
                                         u, outcome)
    IN  /\ IF users[u].role # "patient"
           THEN /\ UNCHANGED <<users, relationships, conversations>>
                /\ last' = Response("manual_assign_doctor", u, Absent, 403,
                                    "None", FALSE)
           ELSE IF users[u].assigned_doctor # NoDoctor
           THEN /\ UNCHANGED <<users, relationships, conversations>>
                /\ last' = Response("manual_assign_doctor", u, Absent, 200,
                                    users[u].assigned_doctor, FALSE)
           ELSE /\ users' = out.users
                /\ relationships' = out.relationships
                /\ conversations' = out.conversations
                /\ last' = Response("manual_assign_doctor", u, outcome,
                                    IF out.ret = "None" THEN 503 ELSE 200,
                                    out.ret, TRUE)
        /\ UnchangedRecommendationSide

\* messages.py line 70: a fresh uuid
FreshConversationId(convs) == <<"uuid", Cardinality(convs) + 1>>

\* messages.py create_conversation: the conversation of the two users is
\* returned, else one is created, without a system message
CreateConversation(uid, other_id) ==
    /\ IF other_id = ""
       THEN /\ UNCHANGED conversations
            /\ last' = Answer("create_conversation", 400)
       ELSE IF \E c \in conversations :
                  uid \in c.participant_ids /\ other_id \in c.participant_ids
       THEN /\ UNCHANGED conversations
            /\ last' = Answer("create_conversation", 200)
       ELSE /\ conversations' = conversations \cup
                  {[id |-> FreshConversationId(conversations),
                    participant_ids |-> {uid, other_id}, seeded |-> FALSE]}
            /\ last' = Answer("create_conversation", 200)
    /\ UNCHANGED <<users, relationships>>
    /\ UnchangedRecommendationSide

\* p1 is assigned to dA and has its conversation; p2 has chosen its role
\* and is not assigned.
InitChat ==
    /\ users = OnboardedUsers
    /\ relationships = OnboardedRelationships
    /\ conversations = OnboardedConversations
    /\ reports = <<>>
    /\ recs = <<>>
    /\ prescriptions = <<>>
    /\ appointments = <<>>
    /\ consultations = <<>>
    /\ slots = NoSlots
    /\ calls = NoCalls
    /\ last = NoResponse

NextChat ==
    \/ \E u \in {"p1", "p2", "dA"} : \E outcome \in ChatOutcomes :
          ManualAssignDoctorChat(u, outcome)
    \/ UpdatePatientProfile("p2", NoDoctor)
    \/ \E uid \in {"p2", "dA"} : \E other_id \in {"", "dA", "dB"} :
          CreateConversation(uid, other_id)

SpecChat == InitChat /\ [][NextChat]_vars

----------------------------------------------------------------------------
(* Properties of conversations (checked under SpecChat)                    *)

\* C19: when the conversation initialisation of an assignment raises, the
\* assignment still succeeds: the engine returns the selected doctor's id,
\* and the patient's assigned_doctor and the relationship document are in
\* place.
C19_ChatFailureKeepsAssignment ==
    [][(/\ last'.op = "manual_assign_doctor"
        /\ last'.engine
        /\ last'.arg \in {"raises", "raises_after_set"}) =>
          /\ last'.code = 200
          /\ last'.ret = GetLeastLoadedDoctor(users).id
          /\ users'[last'.uid].assigned_doctor = last'.ret
          /\ \E r \in relationships' :
                /\ r.id = RelationshipId(last'.ret, last'.uid)
                /\ r.doctor_id = last'.ret
                /\ r.patient_id = last'.uid
                /\ r.status = "active"]_vars

\* p2 was assigned to dB although the initialisation raised before it wrote
\* a conversation.
C19_Witness ==
    /\ last.op = "manual_assign_doctor"
    /\ last.arg = "raises"
    /\ last.ret = "dB"
    /\ users["p2"].assigned_doctor = "dB"
    /\ ~\E c \in conversations : {"p2", "dB"} \subseteq c.participant_ids

\* C20: every step leaves at most one conversation for a pair of users, and
\* leaves every conversation that existed as it was: the system message is
\* seeded by the engine's initialisation when it creates the conversation,
\* and neither a later initialisation nor create_conversation seeds it.
C20_OneConversationPerPair ==
    [][/\ \A c1, c2 \in conversations' :
             c1.participant_ids = c2.participant_ids => c1 = c2
       /\ conversations \subseteq conversations'
       /\ \A c \in conversations' \ conversations :
             c.seeded => /\ last'.op \in {"manual_assign_doctor",
                                          "update_patient_profile"}
                         /\ last'.engine
                         /\ c.id = ConversationId(last'.uid, last'.ret)]_vars

\* p2 started a conversation with dB, and the engine then assigned p2 to dB
\* and reused it: it is the only one of the pair and has no system message.
C20_Witness ==
    /\ last.op \in {"manual_assign_doctor", "update_patient_profile"}
    /\ last.engine
    /\ last.arg \in {"ok", NoDoctor}
    /\ last.ret = "dB"
    /\ \E c \in conversations :
          /\ c.participant_ids = {"p2", "dB"}
          /\ c.id[1] = "uuid"
          /\ ~c.seeded

----------------------------------------------------------------------------
(* The assignment engine over a store whose calls may fail                 *)

\* What the store does during one call of assign_doctor_to_patient: nothing
\* fails; a read of the Load Estimator raises; the read or the update of
\* the patient document raises; the set of the relationship raises.
StoreFaults == {"none", "read_fails", "user_write_fails", "relationship_write_fails"}

\* assignment_service.py lines 11-37: an exception of the queries is caught
\* and None is returned
GetLeastLoadedDoctorStore(us, fault) ==
    IF fault = "read_fails" THEN None ELSE GetLeastLoadedDoctor(us)

\* assignment_service.py lines 40-89: the outer except (lines 87-89) returns
\* None and keeps whatever was written before the failing call
AssignDoctorToPatientStore(us, rels, convs, p, fault) ==
    LET doctor == GetLeastLoadedDoctorStore(us, fault)
    IN  IF doctor = None \/ fault = "user_write_fails"
        THEN [users |-> us, relationships |-> rels, conversations |-> convs,
              ret |-> "None"]
        ELSE IF fault = "relationship_write_fails"
        THEN [users |-> WriteAssignment(us, p, doctor), relationships |-> rels,
              conversations |-> convs, ret |-> "None"]
        ELSE [users |-> WriteAssignment(us, p, doctor),
              relationships |-> WriteRelationship(rels, p, doctor),
              conversations |-> InitializeConversation(convs, p, doctor.id),
              ret |-> doctor.id]

\* patient.py manual_assign_doctor over that store
ManualAssignDoctorStore(u, fault) ==
    LET out == AssignDoctorToPatientStore(users, relationships, conversations, u, fault)
    IN  /\ IF users[u].role # "patient"
           THEN /\ UNCHANGED <<users, relationships, conversations>>
                /\ last' = Response("manual_assign_doctor", u, Absent, 403,
                                    "None", FALSE)
           ELSE IF users[u].assigned_doctor # NoDoctor
           THEN /\ UNCHANGED <<users, relationships, conversations>>
                /\ last' = Response("manual_assign_doctor", u, Absent, 200,
                                    users[u].assigned_doctor, FALSE)
           ELSE /\ users' = out.users
                /\ relationships' = out.relationships
                /\ conversations' = out.conversations
                /\ last' = Response("manual_assign_doctor", u, fault,
                                    IF out.ret = "None" THEN 503 ELSE 200,
                                    out.ret, TRUE)
        /\ UnchangedRecommendationSide

\* p1 is assigned to dA, p2 has chosen its role, p3 has only authenticated;
\* the patients then choose a role, complete their profile and ask for a
\* doctor.
NextStore ==
    \/ \E u \in {"p1", "p2", "p3", "dA"} : \E fault \in StoreFaults :
          ManualAssignDoctorStore(u, fault)
    \/ \E role \in RoleInputs("p3") : SelectRole("p3", role)
    \/ \E u \in {"p2", "p3"} : UpdatePatientProfile(u, Absent)

SpecStore == InitRec /\ [][NextStore]_vars

----------------------------------------------------------------------------
(* Properties of the engine over a failing store (checked under SpecStore) *)

\* C21: the manual trigger answers 503 "no doctors available" only when no
\* eligible doctor exists, and never after the patient's document was
\* modified.
C21_UnavailableOnlyWithoutDoctors ==
    [][(last'.op = "manual_assign_doctor" /\ last'.code = 503) =>
          /\ EligibleDoctors(users) = {}
          /\ users' = users]_vars

----------------------------------------------------------------------------
(* Assignment requests in flight.  A request of manual_assign_doctor runs  *)
(* as the steps between which the server may run another request: the      *)
(* check of the patient's document, the queries of the Load Estimator      *)
(* (taken as one step), the update of the patient, the set of the          *)
(* relationship, the query for a conversation and the set of a new one.    *)

AssignCall(patient, pc, doctor) == [patient |-> patient, pc |-> pc, doctor |-> doctor]

Running(cs) == {c \in 1..Len(cs) : cs[c].pc # "done"}

\* patient.py lines 38-51: the request of an assigned patient returns at
\* once, that of an unassigned one goes on to the engine
ManualAssignBegin(u) ==
    /\ users[u].role = "patient"
    /\ calls' = Append(calls,
                   AssignCall(u, IF users[u].assigned_doctor # NoDoctor
                                 THEN "done" ELSE "estimate", None))
    /\ UNCHANGED <<users, relationships, conversations, last>>
    /\ UNCHANGED <<reports, recs, prescriptions, appointments, consultations, slots>>

\* assignment_service.py lines 44-46: the Load Estimator's answer
EstimateLoad(c) ==
    LET doctor == GetLeastLoadedDoctor(users)
    IN  /\ calls[c].pc = "estimate"
        /\ calls' = [calls EXCEPT ![c].doctor = doctor,
                                  ![c].pc = IF doctor = None THEN "done"
                                            ELSE "write_patient"]
        /\ UNCHANGED <<users, relationships, conversations, last>>
        /\ UNCHANGED <<reports, recs, prescriptions, appointments, consultations, slots>>

\* assignment_service.py lines 50-58
WritePatient(c) ==
    /\ calls[c].pc = "write_patient"
    /\ users' = WriteAssignment(users, calls[c].patient, calls[c].doctor)
    /\ calls' = [calls EXCEPT ![c].pc = "write_relationship"]
    /\ UNCHANGED <<relationships, conversations, last>>
    /\ UNCHANGED <<reports, recs, prescriptions, appointments, consultations, slots>>

\* assignment_service.py lines 61-69
WriteRelationshipOf(c) ==
    /\ calls[c].pc = "write_relationship"
    /\ relationships' = WriteRelationship(relationships, calls[c].patient, calls[c].doctor)
    /\ calls' = [calls EXCEPT ![c].pc = "chat_query"]
    /\ UNCHANGED <<users, conversations, last>>
    /\ UNCHANGED <<reports, recs, prescriptions, appointments, consultations, slots>>

\* chat_service.py lines 16-24: an existing conversation ends the call
ChatQuery(c) ==
    /\ calls[c].pc = "chat_query"
    /\ calls' = [calls EXCEPT ![c].pc =
                    IF \E v \in conversations :
                          /\ calls[c].patient \in v.participant_ids
                          /\ calls[c].doctor.id \in v.participant_ids
                    THEN "done" ELSE "chat_set"]
    /\ UNCHANGED <<users, relationships, conversations, last>>
    /\ UNCHANGED <<reports, recs, prescriptions, appointments, consultations, slots>>

\* chat_service.py lines 26-52: document(conv_id).set of auto_<p>_<d> and
\* of its system message
SetConversation(convs, p, d) ==
    {v \in convs : v.id # ConversationId(p, d)}
    \cup {[id |-> ConversationId(p, d), participant_ids |-> {p, d},
           seeded |-> TRUE]}

\* the call that found no conversation sets one, whatever was written since
ChatSet(c) ==
    /\ calls[c].pc = "chat_set"
    /\ conversations' = SetConversation(conversations, calls[c].patient, calls[c].doctor.id)
    /\ calls' = [calls EXCEPT ![c].pc = "done"]
    /\ UNCHANGED <<users, relationships, last>>
    /\ UNCHANGED <<reports, recs, prescriptions, appointments, consultations, slots>>

\* One step of a request in flight.
AssignStep(c) ==
    \/ EstimateLoad(c)
    \/ WritePatient(c)
    \/ WriteRelationshipOf(c)
    \/ ChatQuery(c)
    \/ ChatSet(c)

\* The two doctors are eligible; the three patients have chosen their role
\* and have no doctor.
RaceUsers ==
    [u \in UserIds |->
        IF u \in Doctors THEN OnboardedUsers[u]
        ELSE [NewUser EXCEPT !.role = "patient"]]

InitRace ==
    /\ users = RaceUsers
    /\ relationships = {}
    /\ conversations = {}
    /\ reports = <<>>
    /\ recs = <<>>
    /\ prescriptions = <<>>
    /\ appointments = <<>>
    /\ consultations = <<>>
    /\ slots = NoSlots
    /\ calls = NoCalls
    /\ last = NoResponse

MaxCalls == 2

\* Requests of p1 and p2 in any interleaving.
NextRace ==
    \/ /\ Len(calls) < MaxCalls
       /\ \E u \in {"p1", "p2"} : ManualAssignBegin(u)
    \/ \E c \in 1..Len(calls) : AssignStep(c)

SpecRace == InitRace /\ [][NextRace]_vars

MaxSeqCalls == 3

\* Requests of the three patients, each begun when the one before is done.
NextSeq ==
    \/ /\ Len(calls) < MaxSeqCalls
       /\ Running(calls) = {}
       /\ \E u \in Patients : ManualAssignBegin(u)
    \/ \E c \in 1..Len(calls) : AssignStep(c)

SpecSeq == InitRace /\ [][NextSeq]_vars

----------------------------------------------------------------------------
(* Properties of interleaved assignment requests (checked under SpecRace)  *)

RelationshipsOfPatient(p) == {r \in relationships : r.patient_id = p}
ConversationsOfPatient(p) == {v \in conversations : p \in v.participant_ids}

\* C22: when every request is done, an assigned patient has a single
\* relationship document and a single conversation, both with the doctor
\* its assigned_doctor names, also when two requests of that patient ran
\* concurrently.
C22_SingleRelationshipAndConversation ==
    (Running(calls) = {}) =>
       \A p \in Patients :
          (users[p].assigned_doctor # NoDoctor) =>
             /\ \A r \in RelationshipsOfPatient(p) :
                   r.doctor_id = users[p].assigned_doctor
             /\ Cardinality(RelationshipsOfPatient(p)) = 1
             /\ \A v \in ConversationsOfPatient(p) :
                   users[p].assigned_doctor \in v.participant_ids
             /\ Cardinality(ConversationsOfPatient(p)) = 1

----------------------------------------------------------------------------
(* Booking requests in flight.  A request runs as its store calls, between *)
(* which the server may run another request, and any of which may raise    *)
(* and end the request.  The uuids of a request are its number; a store    *)
(* position without a document holds NoAppointment or NoConsultationDoc.   *)

NoConsultationDoc == [exists |-> FALSE]

ConsultationExists(cons, consultation_id) ==
    /\ consultation_id \in 1..Len(cons)
    /\ cons[consultation_id] # NoConsultationDoc

\* document(id).set(doc) on a collection kept as a sequence of documents
SetDocument(docs, id, doc, blank) ==
    [i \in 1..(IF id > Len(docs) THEN id ELSE Len(docs)) |->
        IF i = id THEN doc ELSE IF i <= Len(docs) THEN docs[i] ELSE blank]

BookCall(op, pc, patient_id, recommendation_id) == [op |-> op, pc |-> pc, patient_id |-> patient_id, recommendation_id |-> recommendation_id]

\* The appointment of request c (consultations.py lines 273-290,
\* appointments.py lines 99-126)
VideoAppointment(c) ==
    [consultation_id |-> c, patient_id |-> calls[c].patient_id,
     doctor_id |-> "dA", date |-> "2026-01-05", time |-> "09:00 - 09:30",
     type |-> "video", status |-> "upcoming", report_id |-> NoReport,
     room_name |-> <<"medimind", c>>]

UnchangedAssignmentSide == UNCHANGED <<users, relationships, conversations, reports, prescriptions, slots, last>>

\* consultations.py lines 229-269: a patient's body with doctor_id, date
\* and time passes the validation
BookBegin(caller, recommendation_id) ==
    /\ calls' = Append(calls, BookCall("book", "set_appointment", caller,
                                       recommendation_id))
    /\ UNCHANGED <<appointments, consultations, recs>>
    /\ UnchangedAssignmentSide

\* consultations.py line 291
BookSetAppointment(c) ==
    /\ calls[c].op = "book" /\ calls[c].pc = "set_appointment"
    /\ appointments' = SetDocument(appointments, c, VideoAppointment(c), NoAppointment)
    /\ calls' = [calls EXCEPT ![c].pc = "set_consultation"]
    /\ UNCHANGED <<consultations, recs>>
    /\ UnchangedAssignmentSide

\* consultations.py line 306, then line 309
BookSetConsultation(c) ==
    /\ calls[c].op = "book" /\ calls[c].pc = "set_consultation"
    /\ consultations' = SetDocument(consultations, c,
                            NewConsultation(c, c, calls[c].patient_id, "dA",
                                            calls[c].recommendation_id),
                            NoConsultationDoc)
    /\ calls' = [calls EXCEPT ![c].pc = IF calls[c].recommendation_id # 0
                                        THEN "get_recommendation" ELSE "done"]
    /\ UNCHANGED <<appointments, recs>>
    /\ UnchangedAssignmentSide

\* consultations.py line 311: only the existence of the document is read
BookGetRecommendation(c) ==
    /\ calls[c].op = "book" /\ calls[c].pc = "get_recommendation"
    /\ calls' = [calls EXCEPT ![c].pc =
                    IF calls[c].recommendation_id <= Len(recs)
                    THEN "update_recommendation" ELSE "done"]
    /\ UNCHANGED <<appointments, consultations, recs>>
    /\ UnchangedAssignmentSide

\* consultations.py line 312
BookUpdateRecommendation(c) ==
    /\ calls[c].op = "book" /\ calls[c].pc = "update_recommendation"
    /\ recs' = MarkBooked(recs, calls[c].recommendation_id, c)
    /\ calls' = [calls EXCEPT ![c].pc = "done"]
    /\ UNCHANGED <<appointments, consultations>>
    /\ UnchangedAssignmentSide

\* appointments.py lines 36-38, 98-126: a patient's video appointment
CreateBegin(caller) ==
    /\ calls' = Append(calls, BookCall("create_appointment",
                                       "set_consultation", caller, 0))
    /\ UNCHANGED <<appointments, consultations, recs>>
    /\ UnchangedAssignmentSide

\* appointments.py lines 129-139: the consultation is stored first
CreateSetConsultation(c) ==
    /\ calls[c].op = "create_appointment" /\ calls[c].pc = "set_consultation"
    /\ consultations' = SetDocument(consultations, c,
                            NewConsultation(c, c, calls[c].patient_id, "dA", 0),
                            NoConsultationDoc)
    /\ calls' = [calls EXCEPT ![c].pc = "set_appointment"]
    /\ UNCHANGED <<appointments, recs>>
    /\ UnchangedAssignmentSide

\* appointments.py line 141
CreateSetAppointment(c) ==
    /\ calls[c].op = "create_appointment" /\ calls[c].pc = "set_appointment"
    /\ appointments' = SetDocument(appointments, c, VideoAppointment(c), NoAppointment)
    /\ calls' = [calls EXCEPT ![c].pc = "done"]
    /\ UNCHANGED <<consultations, recs>>
    /\ UnchangedAssignmentSide

\* The store call a request is about to make raises: the handler catches
\* nothing, so the request ends with what it has written.
StoreCallRaises(c) ==
    /\ calls[c].pc # "done"
    /\ calls' = [calls EXCEPT ![c].pc = "done"]
    /\ UNCHANGED <<appointments, consultations, recs>>
    /\ UnchangedAssignmentSide

MaxBookCalls == 2

NextBookRace ==
    \/ /\ Len(recs) < MaxRecs
       /\ ManualRecommendConsultation("dA", "p1", Absent)
    \/ /\ Len(calls) < MaxBookCalls
       /\ \E recommendation_id \in RecIdInputs : BookBegin("p1", recommendation_id)
    \/ /\ Len(calls) < MaxBookCalls
       /\ CreateBegin("p1")
    \/ \E c \in 1..Len(calls) :
          \/ BookSetAppointment(c)
          \/ BookSetConsultation(c)
          \/ BookGetRecommendation(c)
          \/ BookUpdateRecommendation(c)
          \/ CreateSetConsultation(c)
          \/ CreateSetAppointment(c)
          \/ StoreCallRaises(c)

SpecBookRace == InitRec /\ [][NextBookRace]_vars

----------------------------------------------------------------------------
(* Properties of interleaved bookings (checked under SpecBookRace)         *)

\* C23: a recommendation's consultation_id is set once: no step of a
\* booking overwrites the consultation_id that an earlier booking has set,
\* so that of two bookings racing on one recommendation only one performs
\* the transition.
C23_ConsultationIdSetOnce ==
    [][\A i \in 1..Len(recs) :
          (recs[i].consultation_id # NoConsultation) =>
             recs'[i].consultation_id = recs[i].consultation_id]_vars

\* C24: no consultation exists without its appointment, and no
\* recommendation is booked without its consultation and that
\* consultation's appointment existing.
C24_AppointmentBeforeConsultation ==
    /\ \A c \in 1..Len(consultations) :
          ConsultationExists(consultations, c) =>
             AppointmentExists(appointments, consultations[c].appointment_id)
    /\ \A i \in 1..Len(recs) :
          (recs[i].status = "booked") =>
             /\ ConsultationExists(consultations, recs[i].consultation_id)
             /\ AppointmentExists(appointments,
                   consultations[recs[i].consultation_id].appointment_id)

----------------------------------------------------------------------------
(* Deduplication of automatic recommendations (checked under SpecManual)   *)

\* The recommendations the automatic path created for report r.
AutomaticFor(r) ==
    {i \in 1..Len(recs) : /\ recs[i].report_id = r
                          /\ recs[i].reason_type # "second_opinion"}

\* C25: however often a report is evaluated, at most one recommendation of
\* the automatic path exists for it.
C25_OneRecommendationPerReport ==
    \A r \in 1..Len(reports) : Cardinality(AutomaticFor(r)) <= 1

----------------------------------------------------------------------------
(* The background task of a report, step by step, and the doctor's review  *)

TaskCall(report_id, user_id, pc, verdict) == [op |-> "process", report_id |-> report_id, user_id |-> user_id, pc |-> pc, verdict |-> verdict]

NoVerdict == "none"

\* reports.py trigger_report_processing: the task is queued for an existing
\* report of the caller, whatever its status
TriggerTask(u, r) ==
    /\ IF r > Len(reports) \/ reports[r].user_id # u
       THEN UNCHANGED calls
       ELSE calls' = Append(calls, TaskCall(r, u, "set_processing", NoVerdict))
    /\ last' = NoResponse
    /\ UNCHANGED <<reports, recs>>
    /\ UNCHANGED <<slots, users, relationships, conversations, prescriptions, appointments, consultations>>

\* report_service.py lines 16-18
TaskSetProcessing(c) ==
    /\ calls[c].op = "process" /\ calls[c].pc = "set_processing"
    /\ reports' = [reports EXCEPT ![calls[c].report_id].status = "processing"]
    /\ calls' = [calls EXCEPT ![c].pc = "analyse"]
    /\ UNCHANGED <<recs, last>>
    /\ UNCHANGED <<slots, users, relationships, conversations, prescriptions, appointments, consultations>>

\* What the download, the text extraction and the classifier end in.
TaskOutcomes == Verdicts \cup {"raises"}

\* report_service.py lines 20-46, and lines 55-60 when one of them raises
TaskAnalyse(c, outcome) ==
    /\ calls[c].op = "process" /\ calls[c].pc = "analyse"
    /\ IF outcome = "raises"
       THEN /\ reports' = [reports EXCEPT ![calls[c].report_id].status = "error"]
            /\ calls' = [calls EXCEPT ![c].pc = "done"]
       ELSE /\ reports' = StoreCompleted(reports, calls[c].report_id, Analysis(outcome))
            /\ calls' = [calls EXCEPT ![c].pc = "recommend", ![c].verdict = outcome]
    /\ UNCHANGED <<recs, last>>
    /\ UNCHANGED <<slots, users, relationships, conversations, prescriptions, appointments, consultations>>

\* report_service.py lines 48-53: a failure of the recommendation step is
\* caught and printed
TaskRecommend(c, fails) ==
    /\ calls[c].op = "process" /\ calls[c].pc = "recommend"
    /\ recs' = IF fails THEN recs
               ELSE AutoRecommendFromReport(users, reports, recs,
                       calls[c].report_id, calls[c].user_id,
                       Analysis(calls[c].verdict))
    /\ calls' = [calls EXCEPT ![c].pc = "done"]
    /\ UNCHANGED <<reports, last>>
    /\ UNCHANGED <<slots, users, relationships, conversations, prescriptions, appointments, consultations>>

\* doctor.py lines 492-497: the update of the review fields and of status
Reviewed(report, doctor_uid) ==
    [f \in DOMAIN report \cup {"reviewed_by"} |->
        IF f = "reviewed_by" THEN doctor_uid
        ELSE IF f = "status" THEN "reviewed" ELSE report[f]]

\* doctor.py mark_report_reviewed
MarkReportReviewed(doctor_uid, report_id) ==
    /\ users[doctor_uid].role = "doctor"
    /\ IF report_id > Len(reports)
       THEN UNCHANGED reports
       ELSE IF users[reports[report_id].user_id].assigned_doctor # doctor_uid
       THEN UNCHANGED reports
       ELSE reports' = [reports EXCEPT ![report_id] = Reviewed(@, doctor_uid)]
    /\ last' = NoResponse
    /\ UNCHANGED <<recs, calls>>
    /\ UNCHANGED <<slots, users, relationships, conversations, prescriptions, appointments, consultations>>

MaxTaskReports == 1
MaxTasks == 2

\* p1, a patient of dA, uploads reports and asks for their processing;
\* the doctors review.
NextTask ==
    \/ /\ Len(reports) < MaxTaskReports
       /\ GetReportUploadUrl("p1")
    \/ /\ Len(calls) < MaxTasks
       /\ \E u \in RecPatients : \E r \in ReportIdInputs : TriggerTask(u, r)
    \/ \E c \in 1..Len(calls) :
          \/ TaskSetProcessing(c)
          \/ \E outcome \in TaskOutcomes : TaskAnalyse(c, outcome)
          \/ \E fails \in BOOLEAN : TaskRecommend(c, fails)
    \/ \E doctor_uid \in Doctors : \E report_id \in ReportIdInputs :
          MarkReportReviewed(doctor_uid, report_id)

SpecTask == InitRec /\ [][NextTask]_vars

----------------------------------------------------------------------------
(* Properties of the report's processing status (checked under SpecTask)   *)

\* C26: a report's status is always one of pending, processing, completed
\* and error, and a report that is completed or in error keeps that status.
C26_StatusMovesForward ==
    [][\A r \in 1..Len(reports) :
          /\ reports'[r].status \in {"pending", "processing", "completed", "error"}
          /\ (reports[r].status \in {"completed", "error"}) =>
                reports'[r].status = reports[r].status]_vars

----------------------------------------------------------------------------
(* The automatic path next to the doctor's review: p1, a patient of dA     *)
(* with one High report processed earlier, uploads and asks for            *)
(* processing; the doctors mark reports reviewed; time passes.             *)

MaxReviewReports == 2

NextReview ==
    \/ /\ Len(reports) < MaxReviewReports
       /\ GetReportUploadUrl("p1")
    \/ /\ Len(recs) < MaxRecs
       /\ \E r \in ReportIdInputs : \E verdict \in Verdicts :
             TriggerReportProcessing("p1", r, verdict)
    \/ \E doctor_uid \in Doctors : \E report_id \in ReportIdInputs :
          MarkReportReviewed(doctor_uid, report_id)
    \/ PassThirtyDays

SpecReview == InitPipeline /\ [][NextReview]_vars

----------------------------------------------------------------------------
(* Properties of the follow-up classification (checked under SpecReview)   *)

\* The patient's reports whose status is completed and whose verdict is
\* Medium or High.
CompletedElevated(reps, u) ==
    Cardinality({i \in 1..Len(reps) :
                    /\ reps[i].user_id = u
                    /\ reps[i].status = "completed"
                    /\ reps[i].risk_level \in {"Medium", "High"}})

----------------------------------------------------------------------------
(* Stability of an assignment (checked under Spec)                         *)

\* C28: once a patient's assigned_doctor is set, no step replaces or
\* clears it.
C28_AssignmentNeverChanges ==
    [][\A p \in Patients :
          (users[p].assigned_doctor # NoDoctor) =>
             users'[p].assigned_doctor = users[p].assigned_doctor]_vars

----------------------------------------------------------------------------
(* Relationship and assignment after an engine call (checked under         *)
(* SpecStore)                                                              *)

ActiveRelationship(rels, d, p) ==
    \E r \in rels : r.id = RelationshipId(d, p) /\ r.status = "active"

\* C29: after every completed call of the assignment engine, including a
\* call that returned None because a write failed, the patient has an
\* active Relationship with doctor d exactly when d is the patient's
\* assigned_doctor.
C29_RelationshipIffAssigned ==
    [][(last'.op = "manual_assign_doctor" /\ last'.engine) =>
          \A d \in Doctors :
             ActiveRelationship(relationships', d, last'.uid)
                <=> users'[last'.uid].assigned_doctor = d]_vars

----------------------------------------------------------------------------
(* Balance of the doctors' loads (checked under SpecSeq; the interleaved   *)
(* case under SpecRace)                                                    *)

\* The claims' own count of a doctor's patients, read from the user documents.
LoadOf(d) ==
    Cardinality({p \in Patients : users[p].assigned_doctor = d})

Imbalanced ==
    \E d1, d2 \in EligibleDoctors(users) : LoadOf(d1) - LoadOf(d2) > 1

\* C30: when assignments run one at a time from a state with no patient
\* assigned and a fixed set of eligible doctors, the patient counts of any
\* two eligible doctors never differ by more than one.
C30_SequentialBalance ==
    \A d1, d2 \in EligibleDoctors(users) : LoadOf(d1) - LoadOf(d2) <= 1

\* Three patients were assigned one after the other: loads two and one.
C30_Witness ==
    /\ Len(calls) = MaxSeqCalls
    /\ Running(calls) = {}
    /\ \A p \in Patients : users[p].assigned_doctor # NoDoctor
    /\ \E d1, d2 \in EligibleDoctors(users) : LoadOf(d1) = 2 /\ LoadOf(d2) = 1

\* C30, second half: with the requests of two patients interleaved, both
\* read the same minimum and the bound is exceeded once both are done
\* (a state SpecRace reaches).
C30_InterleavedImbalance ==
    /\ Running(calls) = {}
    /\ \E c1, c2 \in 1..Len(calls) :
          /\ calls[c1].patient # calls[c2].patient
          /\ calls[c1].doctor = calls[c2].doctor
          /\ calls[c1].doctor # None
    /\ Imbalanced

====
